---- MODULE Spec2Model ----
(***************************************************************************)
(* A model of bayeslite's metamodel interface (src/src/metamodel.py):      *)
(*   - the per-BayesDB metamodel registry, bdb.metamodels, with            *)
(*     bayesdb_register_metamodel and bayesdb_deregister_metamodel;        *)
(*   - IBayesDBMetamodel.predict, the confidence threshold over            *)
(*     predict_confidence;                                                 *)
(*   - the generator/model lifecycle the abstract methods of               *)
(*     IBayesDBMetamodel declare (their bodies live in the providers).     *)
(***************************************************************************)
EXTENDS Integers, Sequences, FiniteSets

(***************************************************************************)
(* Bounds                                                                  *)
(***************************************************************************)
\* Number of metamodel instances the embedding application creates.
MaxInstances == 4

\* Cap on the number of metamodel.register(bdb) invocations counted for the
\* watched (bdb, metamodel) pair.
MaxCount == 2

\* Model numbers of a generator are 1..MaxModels.
MaxModels == 2

\* Confidences and thresholds are the fractions k / ConfScale, k in 0..ConfScale.
ConfScale == 2

(***************************************************************************)
(* The universe: BayesDB hosts and metamodel instances                     *)
(***************************************************************************)
Hosts == {"bdb1", "bdb2"}

Names == {"A", "B"}

\* Instances are identified by their object identity, 1..MaxInstances.
Instances == 1 .. MaxInstances

\* An absent dict key / Python None.
None == 0

\* IBayesDBMetamodel.name(): provided by the subclass, stable per instance.
\* Odd instances are named "A", even ones "B".
name(metamodel) == IF metamodel % 2 = 1 THEN "A" ELSE "B"

\* Instances 1 and 3 belong to a subclass that overrides __eq__ to compare
\* by value; every other instance inherits object.__eq__ (identity).
ValueEq == {1, 3}

\* Python's `a == b` on two metamodel instances.
eq(a, b) == (a = b) \/ ({a, b} \subseteq ValueEq /\ name(a) = name(b))

\* The pairs (bdb, metamodel) whose register() invocations can be counted.
Pairs == Hosts \X Instances

NoWatch == <<"none", None>>

VARIABLES
    metamodels,   \* metamodels[bdb][name]: the instance bound, or None
    db,           \* db[bdb][name]: persistent state installed by register()
    hosts,        \* the BayesDB handles the application has open
    watch,        \* the (bdb, metamodel) pair whose register() calls are counted
    regCount,     \* number of metamodel.register(bdb) invocations for `watch`
    last,         \* the latest registry call: arguments, outcome, state before it
    generators,   \* generators[g]: "none", "live" or "dropped"
    models,       \* models[g]: the model numbers of generator g
    analyzed,     \* analyzed[g]: an analysis pass has completed on g's models
    glast         \* the latest generator call: arguments and outcome

regVars == <<metamodels, db, hosts, watch, regCount, last>>

genVars == <<generators, models, analyzed, glast>>

vars == <<regVars, genVars>>

(***************************************************************************)
(* Generators, models and queries (IBayesDBMetamodel)                      *)
(***************************************************************************)
Generators == {1, 2}

ModelNos == 1 .. MaxModels

Colnos == {0}

Rowids == {1}

Numsamples == {None, 100}

Values == {"x", "y"}

\* The null (Python None) a prediction can be.
Null == "null"

\* modelnos=None, "all models", as an argument of drop_models and
\* analyze_models (model numbers start at 1).
AllModels == {None}

Confidences == 0 .. ConfScale

\* The read-only queries of the interface other than predict, which is
\* built from predict_confidence.
QueryOps == {"column_dependence_probability", "mutual_information",
             "column_typicality", "column_value_probability",
             "row_similarity", "row_typicality",
             "row_column_predictive_probability", "predict_confidence",
             "simulate"}

\* A query that only needs the generator to exist.
Queryable_IgnoresModels(g) == generators[g] = "live"

\* A query needs a live generator with at least one model.
Queryable(g) == generators[g] = "live" /\ models[g] # {}

\* What one call of self.predict_confidence(bdb, generator_id, colno, rowid,
\* numsamples=numsamples) gives back: it raises on a generator that cannot
\* be queried, and otherwise returns the provider's (value, confidence).
predict_confidence(generator_id, value, confidence) ==
    IF Queryable(generator_id)
    THEN [raised |-> "none", value |-> value, confidence |-> confidence]
    ELSE [raised |-> "LifecycleViolation", value |-> Null, confidence |-> 0]

\* predict with the threshold test `confidence <= threshold`.
predict_StrictThreshold(generator_id, colno, rowid, threshold, numsamples, pc) ==
    LET call == [generator_id |-> generator_id, colno |-> colno,
                 rowid |-> rowid, numsamples |-> numsamples]
    IN  IF pc.raised # "none"
        THEN [result |-> pc.raised, value |-> Null, calls |-> <<call>>]
        ELSE IF pc.confidence <= threshold
        THEN [result |-> "ok", value |-> Null, calls |-> <<call>>]
        ELSE [result |-> "ok", value |-> pc.value, calls |-> <<call>>]

\* IBayesDBMetamodel.predict: one predict_confidence call, then the
\* threshold. `pc` is what that call gives back.
predict(generator_id, colno, rowid, threshold, numsamples, pc) ==
    LET call == [generator_id |-> generator_id, colno |-> colno,
                 rowid |-> rowid, numsamples |-> numsamples]
    IN  IF pc.raised # "none"
        THEN [result |-> pc.raised, value |-> Null, calls |-> <<call>>]
        ELSE IF pc.confidence < threshold
        THEN [result |-> "ok", value |-> Null, calls |-> <<call>>]
        ELSE [result |-> "ok", value |-> pc.value, calls |-> <<call>>]

\* Whether the latest generator call was a successful drop_models of
\* generator g with no model numbers.
DroppedAllByLast(g) ==
    /\ glast.op = "drop_models"
    /\ glast.g = g
    /\ glast.modelnos = AllModels
    /\ glast.result = "ok"

GCall(op, g, modelnos, result) ==
    [op |-> op, g |-> g, modelnos |-> modelnos, result |-> result,
     afterDropAll |-> DroppedAllByLast(g),
     colno |-> None, rowid |-> None, numsamples |-> None, threshold |-> None,
     value |-> Null, pcValue |-> Null, pcConfidence |-> None, calls |-> <<>>]

create_generator(g) ==
    /\ IF generators[g] = "none"
       THEN /\ generators' = [generators EXCEPT ![g] = "live"]
            /\ glast' = GCall("create_generator", g, {}, "ok")
       ELSE /\ generators' = generators
            /\ glast' = GCall("create_generator", g, {}, "LifecycleViolation")
    /\ UNCHANGED <<models, analyzed, regVars>>

drop_generator(g) ==
    /\ IF generators[g] = "live"
       THEN /\ generators' = [generators EXCEPT ![g] = "dropped"]
            /\ models' = [models EXCEPT ![g] = {}]
            /\ analyzed' = [analyzed EXCEPT ![g] = FALSE]
            /\ glast' = GCall("drop_generator", g, {}, "ok")
       ELSE /\ UNCHANGED <<generators, models, analyzed>>
            /\ glast' = GCall("drop_generator", g, {}, "LifecycleViolation")
    /\ UNCHANGED regVars

initialize_models(g, modelnos) ==
    /\ IF generators[g] = "live" /\ modelnos \cap models[g] = {}
       THEN /\ models' = [models EXCEPT ![g] = @ \cup modelnos]
            /\ glast' = GCall("initialize_models", g, modelnos, "ok")
       ELSE /\ models' = models
            /\ glast' = GCall("initialize_models", g, modelnos,
                              "LifecycleViolation")
    /\ UNCHANGED <<generators, analyzed, regVars>>

\* The models a call with `modelnos` (None: all of them) is about.
Selected(g, modelnos) == IF modelnos = AllModels THEN models[g] ELSE modelnos

drop_models(g, modelnos) ==
    /\ IF generators[g] = "live" /\ Selected(g, modelnos) \subseteq models[g]
       THEN /\ models' = [models EXCEPT ![g] = @ \ Selected(g, modelnos)]
            /\ analyzed' = [analyzed EXCEPT ![g] =
                                @ /\ models[g] \ Selected(g, modelnos) # {}]
            /\ glast' = GCall("drop_models", g, modelnos, "ok")
       ELSE /\ UNCHANGED <<models, analyzed>>
            /\ glast' = GCall("drop_models", g, modelnos, "LifecycleViolation")
    /\ UNCHANGED <<generators, regVars>>

analyze_models(g, modelnos) ==
    /\ IF /\ generators[g] = "live"
          /\ Selected(g, modelnos) # {}
          /\ Selected(g, modelnos) \subseteq models[g]
       THEN /\ analyzed' = [analyzed EXCEPT ![g] = TRUE]
            /\ glast' = GCall("analyze_models", g, modelnos, "ok")
       ELSE /\ analyzed' = analyzed
            /\ glast' = GCall("analyze_models", g, modelnos,
                              "LifecycleViolation")
    /\ UNCHANGED <<generators, models, regVars>>

\* Any of the read-only queries of QueryOps.
query(op, g) ==
    /\ glast' = GCall(op, g, {},
                      IF Queryable(g) THEN "ok" ELSE "LifecycleViolation")
    /\ UNCHANGED <<generators, models, analyzed, regVars>>

Predict(g, colno, rowid, threshold, numsamples, value, confidence) ==
    LET pc == predict_confidence(g, value, confidence)
        out == predict(g, colno, rowid, threshold, numsamples, pc)
    IN  /\ glast' = [GCall("predict", g, {}, out.result) EXCEPT
                        !.colno = colno, !.rowid = rowid,
                        !.numsamples = numsamples, !.threshold = threshold,
                        !.value = out.value, !.pcValue = pc.value,
                        !.pcConfidence = pc.confidence, !.calls = out.calls]
        /\ UNCHANGED <<generators, models, analyzed, regVars>>

InitGenerators ==
    /\ generators = [g \in Generators |-> "none"]
    /\ models = [g \in Generators |-> {}]
    /\ analyzed = [g \in Generators |-> FALSE]
    /\ glast = [op |-> "none", g |-> None, modelnos |-> {},
                result |-> "none", afterDropAll |-> FALSE,
                colno |-> None, rowid |-> None, numsamples |-> None,
                threshold |-> None, value |-> Null, pcValue |-> Null,
                pcConfidence |-> None, calls |-> <<>>]

ModelArgs == (SUBSET ModelNos) \ {{}}

CreateGenerator == \E g \in Generators : create_generator(g)

DropGenerator == \E g \in Generators : drop_generator(g)

InitializeModels ==
    \E g \in Generators, modelnos \in ModelArgs : initialize_models(g, modelnos)

DropModels ==
    \E g \in Generators, modelnos \in ModelArgs \cup {AllModels} :
        drop_models(g, modelnos)

AnalyzeModels ==
    \E g \in Generators, modelnos \in ModelArgs \cup {AllModels} :
        analyze_models(g, modelnos)

Query == \E op \in QueryOps, g \in Generators : query(op, g)

PredictCall ==
    \E g \in Generators, colno \in Colnos, rowid \in Rowids,
       threshold \in Confidences, numsamples \in Numsamples,
       value \in Values, confidence \in Confidences :
        Predict(g, colno, rowid, threshold, numsamples, value, confidence)

NextGen ==
    \/ CreateGenerator
    \/ DropGenerator
    \/ InitializeModels
    \/ DropModels
    \/ AnalyzeModels
    \/ Query
    \/ PredictCall

(***************************************************************************)
(* The host's savepoint and the provider's register()                      *)
(***************************************************************************)
\* metamodel.register(bdb): installs the provider's persistent structures.
\* A failing register() raises after having written part of them.
metamodel_register(dbh, nm, registerOk) ==
    [dbh EXCEPT ![nm] = IF registerOk THEN "installed" ELSE "partial"]

\* bdb.savepoint(): a scoped unit of work. When the block raises, or when
\* the savepoint cannot be released, the persistent state goes back to what
\* it was on entry; otherwise the block's writes are kept.
savepoint(snapshot, body, blockOk, releaseOk) ==
    IF blockOk /\ releaseOk THEN body ELSE snapshot

(***************************************************************************)
(* bayesdb_register_metamodel                                              *)
(***************************************************************************)
\* bayesdb_register_metamodel without the `name in bdb.metamodels` check.
RegisterOutcome_NoNameCheck(reg, dbh, metamodel, registerOk, releaseOk) ==
    LET nm == name(metamodel)
        body == metamodel_register(dbh, nm, registerOk)
    IN  IF ~registerOk
        THEN [result |-> "RegisterError", reg |-> reg,
              db |-> savepoint(dbh, body, FALSE, TRUE), calls |-> 1]
        ELSE [result |-> IF releaseOk THEN "ok" ELSE "ReleaseError",
              reg |-> [reg EXCEPT ![nm] = metamodel],
              db |-> savepoint(dbh, body, TRUE, releaseOk), calls |-> 1]

\* bayesdb_register_metamodel with the binding made before
\* metamodel.register(bdb) is called.
RegisterOutcome_BindFirst(reg, dbh, metamodel, registerOk, releaseOk) ==
    LET nm == name(metamodel)
        body == metamodel_register(dbh, nm, registerOk)
    IN  IF reg[nm] # None
        THEN [result |-> "ValueError", reg |-> reg, db |-> dbh, calls |-> 0]
        ELSE IF ~registerOk
        THEN [result |-> "RegisterError",
              reg |-> [reg EXCEPT ![nm] = metamodel],
              db |-> savepoint(dbh, body, FALSE, TRUE), calls |-> 1]
        ELSE [result |-> IF releaseOk THEN "ok" ELSE "ReleaseError",
              reg |-> [reg EXCEPT ![nm] = metamodel],
              db |-> savepoint(dbh, body, TRUE, releaseOk), calls |-> 1]

\* bayesdb_register_metamodel with metamodel.register(bdb) called before the
\* name check, inside the savepoint.
RegisterOutcome_RegisterFirst(reg, dbh, metamodel, registerOk, releaseOk) ==
    LET nm == name(metamodel)
        body == metamodel_register(dbh, nm, registerOk)
    IN  IF ~registerOk
        THEN [result |-> "RegisterError", reg |-> reg,
              db |-> savepoint(dbh, body, FALSE, TRUE), calls |-> 1]
        ELSE IF reg[nm] # None
        THEN [result |-> "ValueError", reg |-> reg,
              db |-> savepoint(dbh, body, FALSE, TRUE), calls |-> 1]
        ELSE [result |-> IF releaseOk THEN "ok" ELSE "ReleaseError",
              reg |-> [reg EXCEPT ![nm] = metamodel],
              db |-> savepoint(dbh, body, TRUE, releaseOk), calls |-> 1]

\* The outcome of bayesdb_register_metamodel(bdb, metamodel) on the host's
\* registry `reg` and persistent state `dbh`:
\*   result  "ok" or the exception raised,
\*   reg     the registry afterwards,
\*   db      the persistent state afterwards,
\*   calls   how many times metamodel.register(bdb) was invoked.
RegisterOutcome(reg, dbh, metamodel, registerOk, releaseOk) ==
    LET nm == name(metamodel)
        body == metamodel_register(dbh, nm, registerOk)
    IN  IF reg[nm] # None
        THEN [result |-> "ValueError", reg |-> reg, db |-> dbh, calls |-> 0]
        ELSE IF ~registerOk
        THEN [result |-> "RegisterError", reg |-> reg,
              db |-> savepoint(dbh, body, FALSE, TRUE), calls |-> 1]
        ELSE [result |-> IF releaseOk THEN "ok" ELSE "ReleaseError",
              reg |-> [reg EXCEPT ![nm] = metamodel],
              db |-> savepoint(dbh, body, TRUE, releaseOk), calls |-> 1]

\* Whether the latest registry call was a successful deregistration of the
\* name `nm` in `bdb`.
FreedByLast(bdb, nm) ==
    /\ last.op = "deregister"
    /\ last.result = "ok"
    /\ last.bdb = bdb
    /\ name(last.m) = nm

bayesdb_register_metamodel(bdb, metamodel, registerOk, releaseOk) ==
    LET out == RegisterOutcome(metamodels[bdb], db[bdb], metamodel,
                               registerOk, releaseOk)
        counted == IF watch = <<bdb, metamodel>> THEN out.calls ELSE 0
    IN  /\ regCount + counted <= MaxCount
        /\ metamodels' = [metamodels EXCEPT ![bdb] = out.reg]
        /\ db' = [db EXCEPT ![bdb] = out.db]
        /\ regCount' = regCount + counted
        /\ last' = [op |-> "register", bdb |-> bdb, m |-> metamodel,
                    result |-> out.result, pre |-> metamodels, preDb |-> db,
                    preCount |-> regCount,
                    afterDeregister |-> FreedByLast(bdb, name(metamodel))]
        /\ UNCHANGED <<hosts, watch, genVars>>

(***************************************************************************)
(* bayesdb_deregister_metamodel                                            *)
(***************************************************************************)
\* bayesdb_deregister_metamodel without the `del bdb.metamodels[name]`.
DeregisterOutcome_NoDelete(reg, metamodel) ==
    LET nm == name(metamodel)
    IN  IF reg[nm] = None
        THEN [result |-> "AssertionError", reg |-> reg]
        ELSE IF ~eq(reg[nm], metamodel)
        THEN [result |-> "AssertionError", reg |-> reg]
        ELSE [result |-> "ok", reg |-> reg]

\* bayesdb_deregister_metamodel emptying the registry instead of deleting
\* the one name.
DeregisterOutcome_Clear(reg, metamodel) ==
    LET nm == name(metamodel)
    IN  IF reg[nm] = None
        THEN [result |-> "AssertionError", reg |-> reg]
        ELSE IF ~eq(reg[nm], metamodel)
        THEN [result |-> "AssertionError", reg |-> reg]
        ELSE [result |-> "ok", reg |-> [n \in Names |-> None]]

DeregisterOutcome(reg, metamodel) ==
    LET nm == name(metamodel)
    IN  IF reg[nm] = None
        THEN [result |-> "AssertionError", reg |-> reg]
        ELSE IF ~eq(reg[nm], metamodel)
        THEN [result |-> "AssertionError", reg |-> reg]
        ELSE [result |-> "ok", reg |-> [reg EXCEPT ![nm] = None]]

bayesdb_deregister_metamodel(bdb, metamodel) ==
    LET out == DeregisterOutcome(metamodels[bdb], metamodel)
    IN  /\ metamodels' = [metamodels EXCEPT ![bdb] = out.reg]
        /\ last' = [op |-> "deregister", bdb |-> bdb, m |-> metamodel,
                    result |-> out.result, pre |-> metamodels, preDb |-> db,
                    preCount |-> regCount, afterDeregister |-> FALSE]
        /\ UNCHANGED <<db, hosts, watch, regCount, genVars>>

(***************************************************************************)
(* Specifications of the registry                                          *)
(***************************************************************************)
InitRegistry ==
    /\ metamodels = [h \in Hosts |-> [n \in Names |-> None]]
    /\ db = [h \in Hosts |-> [n \in Names |-> "absent"]]
    /\ regCount = 0
    /\ last = [op |-> "none", bdb |-> "none", m |-> None, result |-> "none",
               pre |-> metamodels, preDb |-> db, preCount |-> 0,
               afterDeregister |-> FALSE]

Init ==
    /\ InitRegistry
    /\ InitGenerators
    /\ hosts = Hosts
    /\ watch = NoWatch

Register ==
    \E bdb \in hosts, metamodel \in Instances, registerOk, releaseOk \in BOOLEAN :
        bayesdb_register_metamodel(bdb, metamodel, registerOk, releaseOk)

Deregister ==
    \E bdb \in hosts, metamodel \in Instances :
        bayesdb_deregister_metamodel(bdb, metamodel)

Next == Register \/ Deregister

Spec == Init /\ [][Next]_vars

\* The same registry with the register() invocations of one pair counted.
\* The application opens the one BayesDB of the watched pair.
InitCount ==
    /\ InitRegistry
    /\ InitGenerators
    /\ watch \in Pairs
    /\ hosts = {watch[1]}

SpecCount == InitCount /\ [][Next]_vars

\* The generator lifecycle and the queries, on their own.
SpecGen == Init /\ [][NextGen]_vars

(***************************************************************************)
(* Properties of the registry                                              *)
(***************************************************************************)
LastName == name(last.m)

\* Every name bound in the registries `reg` has its installation committed
\* in the persistent states `dbs`.
Committed(reg, dbs) ==
    \A h \in Hosts, n \in Names : reg[h][n] # None => dbs[h][n] = "installed"

IsRegister == last.op = "register"

IsDeregister == last.op = "deregister"

\* C1: bayesdb_register_metamodel(bdb, m2) fails whenever a metamodel with
\* the name of m2 is already bound in bdb.metamodels, and the registry is
\* then what it was: the name is still bound to the first instance.
C1_DuplicateNameRejected ==
    (IsRegister /\ last.pre[last.bdb][LastName] # None) =>
        /\ last.result = "ValueError"
        /\ metamodels = last.pre

C1_Witness ==
    /\ IsRegister
    /\ last.result = "ValueError"
    /\ last.pre[last.bdb][LastName] \notin {None, last.m}
    /\ metamodels[last.bdb][LastName] = last.pre[last.bdb][LastName]

\* C2: bayesdb_deregister_metamodel(bdb, m) succeeds only when the very
\* instance m is the one bound to its name in bdb.metamodels; in every other
\* case (m not registered, or another instance holding its name, even an
\* equal-comparing one) the call fails and leaves the registry unchanged.
\* Stated for the registries whose bindings all come from registrations
\* that completed (Committed), so that no other failure is involved.
C2_DeregisterExactInstance ==
    (IsDeregister /\ Committed(last.pre, last.preDb)) =>
        /\ last.result = "ok" => last.pre[last.bdb][LastName] = last.m
        /\ last.pre[last.bdb][LastName] # last.m =>
              (last.result # "ok" /\ metamodels = last.pre)

\* C3: after a successful bayesdb_deregister_metamodel(bdb, m) the name of m
\* is absent from bdb.metamodels, and a bayesdb_register_metamodel(bdb, m')
\* that follows it, for any m' of that name, is not rejected as a duplicate
\* and, when m'.register(bdb) succeeds, binds m'; it returns normally when
\* the savepoint is released as well.
C3_NameReusable ==
    /\ (IsDeregister /\ last.result = "ok") =>
          metamodels[last.bdb][LastName] = None
    /\ (IsRegister /\ last.afterDeregister) =>
          /\ last.result \in {"ok", "ReleaseError", "RegisterError"}
          /\ last.result # "RegisterError" =>
                metamodels[last.bdb][LastName] = last.m

C3_Witness ==
    /\ IsRegister
    /\ last.afterDeregister
    /\ last.result = "ok"
    /\ metamodels[last.bdb][LastName] = last.m
    /\ last.preDb[last.bdb][LastName] = "installed"

\* C4: when metamodel.register(bdb) fails inside
\* bayesdb_register_metamodel, bdb.metamodels is afterwards what it was
\* before the call, with no binding for the name, and the persistent state
\* is back at the savepoint: nothing partially installed is visible.
C4_RegistrationAtomic ==
    (IsRegister /\ last.result = "RegisterError") =>
        /\ metamodels = last.pre
        /\ metamodels[last.bdb][LastName] = None
        /\ db = last.preDb
        /\ \A h \in Hosts, n \in Names : db[h][n] # "partial"

C4_Witness ==
    /\ IsRegister
    /\ last.result = "RegisterError"
    /\ metamodels[last.bdb][LastName] = None
    /\ db[last.bdb][LastName] = "absent"

\* C6 (as stated): metamodel.register(bdb) is invoked at most once for each
\* (metamodel, bdb) pair over any sequence of register and deregister calls,
\* also when the instance is registered, deregistered and registered again.
\* Stated here for the case the claim names: when a registration of the
\* watched pair has succeeded right after a deregistration of its name,
\* whose installation an earlier registration had committed, register() has
\* been invoked for the pair at most once.
C6_RegisterAtMostOnce ==
    (IsRegister /\ watch = <<last.bdb, last.m>> /\ last.afterDeregister
        /\ last.preDb[last.bdb][LastName] = "installed"
        /\ last.result = "ok") => regCount <= 1

\* C6 (amended): every bayesdb_register_metamodel call invokes
\* metamodel.register(bdb) exactly once when the name is unbound and not at
\* all when it is rejected, and bayesdb_deregister_metamodel never invokes
\* it; a pair registered, deregistered and registered again has it invoked
\* once per accepted call.
C6_RegisterOncePerAcceptedCall ==
    IF IsRegister /\ watch = <<last.bdb, last.m>>
    THEN regCount = last.preCount + (IF last.result = "ValueError" THEN 0 ELSE 1)
    ELSE regCount = last.preCount

C6_Witness ==
    /\ IsRegister
    /\ watch = <<last.bdb, last.m>>
    /\ last.afterDeregister
    /\ last.result = "ok"
    /\ last.preCount = 1
    /\ regCount = 2

\* C8: a name is bound in bdb.metamodels only if the installation made by
\* metamodel.register(bdb) was committed, also when the savepoint fails to
\* release after register() returned.
C8_BoundOnlyIfCommitted == Committed(metamodels, db)

\* C9: a metamodel instance is registered in at most one BayesDB at a time:
\* registering an instance that is bound in any BayesDB fails.
\* Stated for the registries whose bindings all come from registrations
\* that completed (Committed), so that no other failure is involved.
C9_OneHostPerInstance ==
    /\ Committed(metamodels, db) =>
          \A m \in Instances :
              Cardinality({h \in Hosts : metamodels[h][name(m)] = m}) <= 1
    /\ (/\ IsRegister
        /\ Committed(last.pre, last.preDb)
        /\ \E h \in Hosts : last.pre[h][LastName] = last.m) =>
          last.result # "ok"

\* C10: every key k of bdb.metamodels is bound to one instance whose name()
\* is k, and a register or deregister call for a name leaves the bindings of
\* all other names, and of the other BayesDBs, unchanged.
C10_RegistryInvariant ==
    /\ \A h \in Hosts, k \in Names :
          metamodels[h][k] # None =>
              (metamodels[h][k] \in Instances /\ name(metamodels[h][k]) = k)
    /\ (IsRegister \/ IsDeregister) =>
          \A h \in Hosts, k \in Names :
              (h # last.bdb \/ k # LastName) =>
                  metamodels[h][k] = last.pre[h][k]

C10_Witness ==
    /\ IsDeregister
    /\ last.result = "ok"
    /\ metamodels[last.bdb][LastName] = None
    /\ \E k \in Names \ {LastName} : metamodels[last.bdb][k] # None
    /\ \E h \in Hosts \ {last.bdb} : metamodels[h][LastName] # None

(***************************************************************************)
(* Properties of predict and of the generator lifecycle                    *)
(***************************************************************************)
\* C5: predict(..., threshold=t) returns the value predict_confidence gave
\* when the confidence is >= t (confidence = t included) and null when it
\* is < t, and it calls predict_confidence exactly once, with its own
\* generator, column, row and numsamples.
C5_PredictThreshold ==
    glast.op = "predict" =>
        /\ glast.calls = <<[generator_id |-> glast.g, colno |-> glast.colno,
                            rowid |-> glast.rowid,
                            numsamples |-> glast.numsamples]>>
        /\ glast.result = "ok" =>
              glast.value = IF glast.pcConfidence >= glast.threshold
                            THEN glast.pcValue ELSE Null

C5_Witness ==
    /\ glast.op = "predict"
    /\ glast.result = "ok"
    /\ glast.threshold > 0
    /\ glast.pcConfidence = glast.threshold
    /\ glast.value = glast.pcValue
    /\ glast.value # Null
    /\ glast.numsamples # None

\* C7: after drop_models with no model numbers the generator has no models,
\* and the query that follows it on that generator fails with a
\* lifecycle-state violation instead of returning a result.
C7_QueryAfterDropAllFails ==
    /\ DroppedAllByLast(glast.g) => models[glast.g] = {}
    /\ (glast.op \in QueryOps \cup {"predict"} /\ glast.afterDropAll) =>
          glast.result = "LifecycleViolation"

C7_Witness ==
    /\ glast.op \in {"column_dependence_probability", "simulate"}
    /\ glast.afterDropAll
    /\ glast.result = "LifecycleViolation"
    /\ generators[glast.g] = "live"

====
